---- MODULE Spec2Model ----
(***************************************************************************)
(* Email-Validator: the validation pipeline of src/utils/emailValidator.ts *)
(* (validateEmailWithRetry, validateEmailBatch, chunk) as a state machine. *)
(*                                                                         *)
(* A string is a sequence of one-character strings, so that split('@'),    *)
(* toLowerCase, endsWith and the character classes of the format checks    *)
(* are computed, not assumed.                                              *)
(***************************************************************************)
EXTENDS Integers, Sequences, FiniteSets, TLC

\* ------------------------------------------------------------------------
\* Bounds of the model
\* ------------------------------------------------------------------------

\* longest address list handed to validateEmailBatch
MaxEmails == 3

\* largest retryStrategy.maxAttempts drawn for a run
MaxAttempts == 3

\* largest product of the number of addresses and maxAttempts in a run: long
\* lists run with few attempts, many attempts with short lists
MaxWork == 4

\* ------------------------------------------------------------------------
\* Program constants
\* ------------------------------------------------------------------------

\* CHUNK_SIZE is 2000 in the source; it is scaled to 2 here so that a list
\* within MaxEmails is split into more than one group.
CHUNK_SIZE == 2

DEFAULT_BACKOFF_DELAY == 2000

DEFAULT_TIMEOUT == 30000

\* Enterprise domain whitelist
ENTERPRISE_DOMAINS ==
    { <<"m","i","c","r","o","s","o","f","t",".","c","o","m">>,
      <<"a","p","p","l","e",".","c","o","m">>,
      <<"g","o","o","g","l","e",".","c","o","m">>,
      <<"a","m","a","z","o","n",".","c","o","m">>,
      <<"f","a","c","e","b","o","o","k",".","c","o","m">>,
      <<"o","r","a","c","l","e",".","c","o","m">>,
      <<"i","b","m",".","c","o","m">>,
      <<"i","n","t","e","l",".","c","o","m">>,
      <<"c","i","s","c","o",".","c","o","m">>,
      <<"h","p",".","c","o","m">>,
      <<"d","e","l","l",".","c","o","m">>,
      <<"s","a","m","s","u","n","g",".","c","o","m">>,
      <<"s","o","n","y",".","c","o","m">>,
      <<"t","o","y","o","t","a",".","c","o","m">>,
      <<"h","o","n","d","a",".","c","o","m">>,
      <<"b","m","w",".","c","o","m">>,
      <<"b","o","e","i","n","g",".","c","o","m">>,
      <<"g","e",".","c","o","m">>,
      <<"s","i","e","m","e","n","s",".","c","o","m">>,
      <<"p","h","i","l","i","p","s",".","c","o","m">> }

\* Educational and government domains
TRUSTED_TLDS ==
    { <<"e","d","u">>,
      <<"g","o","v">>,
      <<"m","i","l">>,
      <<"a","c",".","u","k">>,
      <<"g","o","v",".","u","k">>,
      <<"e","d","u",".","a","u">>,
      <<"g","o","v",".","a","u">>,
      <<"a","c",".","j","p">>,
      <<"g","o",".","j","p">>,
      <<"e","d","u",".","c","n">>,
      <<"g","o","v",".","c","n">> }

\* ------------------------------------------------------------------------
\* Strings
\* ------------------------------------------------------------------------

Lower == {"a", "b", "c", "d", "e", "f", "g", "h", "i", "j", "k", "l", "m", "n", "o", "p", "q", "r", "s", "t", "u", "v", "w", "x", "y", "z"}
Upper == {"A", "B", "C", "D", "E", "F", "G", "H", "I", "J", "K", "L", "M", "N", "O", "P", "Q", "R", "S", "T", "U", "V", "W", "X", "Y", "Z"}
ToLowerChar ==
    ("A" :> "a") @@ ("B" :> "b") @@ ("C" :> "c") @@ ("D" :> "d") @@ ("E" :> "e") @@ ("F" :> "f") @@ ("G" :> "g") @@ ("H" :> "h") @@ ("I" :> "i") @@ ("J" :> "j") @@ ("K" :> "k") @@ ("L" :> "l") @@ ("M" :> "m") @@ ("N" :> "n") @@ ("O" :> "o") @@ ("P" :> "p") @@ ("Q" :> "q") @@ ("R" :> "r") @@ ("S" :> "s") @@ ("T" :> "t") @@ ("U" :> "u") @@ ("V" :> "v") @@ ("W" :> "w") @@ ("X" :> "x") @@ ("Y" :> "y") @@ ("Z" :> "z")

Digits == {"0", "1", "2", "3", "4", "5", "6", "7", "8", "9"}

\* String.prototype.toLowerCase
toLowerCase(s) ==
    [k \in 1..Len(s) |-> IF s[k] \in Upper THEN ToLowerChar[s[k]] ELSE s[k]]

\* String.prototype.endsWith
endsWith(s, suffix) ==
    /\ Len(suffix) <= Len(s)
    /\ SubSeq(s, Len(s) - Len(suffix) + 1, Len(s)) = suffix

RECURSIVE split(_, _)
\* String.prototype.split on a one-character separator: always at least one
\* piece, empty pieces kept.
split(s, sep) ==
    IF s = <<>>
    THEN << <<>> >>
    ELSE LET rest == split(Tail(s), sep)
         IN  IF Head(s) = sep
             THEN << <<>> >> \o rest
             ELSE << <<Head(s)>> \o Head(rest) >> \o Tail(rest)

RECURSIVE join(_, _)
\* Array.prototype.join
join(parts, sep) ==
    IF parts = <<>> THEN <<>>
    ELSE IF Len(parts) = 1 THEN parts[1]
    ELSE parts[1] \o <<sep>> \o join(Tail(parts), sep)

\* the value of a destructured element that the array does not have
Undefined == <<"undefined-value">>

\* const [localPart, domain] = email.split('@')
domainOf(email) ==
    LET parts == split(email, "@")
    IN  IF Len(parts) >= 2 THEN parts[2] ELSE Undefined

\* ------------------------------------------------------------------------
\* Syntax and domain checks (the validator library as called by the code)
\* ------------------------------------------------------------------------

\* one label of a domain name: [a-z0-9_-]+, no leading or trailing hyphen,
\* and no underscore since allow_underscores is false
IsDomainLabel(part) ==
    /\ Len(part) >= 1
    /\ Len(part) <= 63
    /\ \A k \in 1..Len(part) : part[k] \in Lower \cup Upper \cup Digits \cup {"-", "_"}
    /\ part[1] # "-"
    /\ part[Len(part)] # "-"
    /\ \A k \in 1..Len(part) : part[k] # "_"

\* a top-level label: two or more letters
IsTld(tld) ==
    /\ Len(tld) >= 2
    /\ \A k \in 1..Len(tld) : tld[k] \in Lower \cup Upper

\* validator.isFQDN(domain, {require_tld: true, allow_underscores: false,
\* allow_trailing_dot: false})
isFQDN(domain) ==
    /\ domain # Undefined
    /\ LET parts == split(domain, ".")
       IN  /\ Len(parts) >= 2
           /\ IsTld(parts[Len(parts)])
           /\ \A k \in 1..Len(parts) : IsDomainLabel(parts[k])

\* the characters of an unquoted local part (the backquote, which the
\* library also admits, is left out: no address of the model holds it)
EmailUserChars ==
    Lower \cup Upper \cup Digits \cup
    {"!", "#", "$", "%", "&", "'", "*", "+", "-", "/", "=", "?", "^", "_", "{", "|", "}", "~"}

\* the characters a quoted local part may hold besides the above: the quoted
\* form admits the at sign, the dot and other printable characters, but
\* neither the double quote nor the backslash
QuotedUserChars ==
    EmailUserChars \cup {"@", ".", " ", "(", ")", ",", ":", ";", "<", ">", "[", "]"}

\* validator.isEmail(email, {allow_utf8_local_part: false, require_tld: true,
\* allow_ip_domain: false}): the domain is what follows the LAST '@', the user
\* is everything before it.
isEmail(email) ==
    LET parts  == split(email, "@")
        domain == parts[Len(parts)]
        user   == join(SubSeq(parts, 1, Len(parts) - 1), "@")
    IN  /\ Len(user) <= 64
        /\ Len(domain) <= 254
        /\ isFQDN(domain)
        /\ IF Len(user) >= 1 /\ user[1] = "\""
           THEN LET inner == SubSeq(user, 2, Len(user) - 1)
                IN  \A k \in 1..Len(inner) : inner[k] \in QuotedUserChars
           ELSE LET user_parts == split(user, ".")
                IN  \A k \in 1..Len(user_parts) :
                        /\ Len(user_parts[k]) >= 1
                        /\ \A j \in 1..Len(user_parts[k]) :
                               user_parts[k][j] \in EmailUserChars

\* ------------------------------------------------------------------------
\* Reputation classifier
\* ------------------------------------------------------------------------

isEnterpriseDomain(domain) ==
    \/ toLowerCase(domain) \in ENTERPRISE_DOMAINS
    \/ \E tld \in TRUSTED_TLDS : endsWith(toLowerCase(domain), <<".">> \o tld)

\* ------------------------------------------------------------------------
\* Results of validateEmailWithRetry
\* ------------------------------------------------------------------------

STATUS_VALID == "Valid - Safe to Contact"
STATUS_RETRY == "Retry Later"
STATUS_DO_NOT_CONTACT == "Do Not Contact"

\* an optional reason that is absent (an absent retryAfter is the empty
\* sequence, a present one the one-element sequence of its value)
Absent == "(absent)"

\* the result a pipeline has before it returns
NoResult == [status |-> "(pending)"]

Details(format, domain, mxRecords, smtp, corporate, retryCount, steps) ==
    [ format |-> format, domain |-> domain, disposable |-> FALSE,
      mxRecords |-> mxRecords, smtp |-> smtp, spamTrap |-> FALSE,
      corporate |-> corporate, blacklisted |-> FALSE,
      retryCount |-> retryCount, verificationSteps |-> steps ]

FormatFailedResult_TwoSteps(email) ==
    [ email |-> email, status |-> STATUS_DO_NOT_CONTACT, confidence |-> "Low",
      reason |-> "Invalid email format (RFC 5322)", retryAfter |-> <<>>,
      details |-> Details(FALSE, FALSE, FALSE, FALSE, FALSE, 0,
                          <<"Format check started", "Format check failed">>) ]

FormatFailedResult(email) ==
    [ email |-> email, status |-> STATUS_DO_NOT_CONTACT, confidence |-> "Low",
      reason |-> "Invalid email format (RFC 5322)", retryAfter |-> <<>>,
      details |-> Details(FALSE, FALSE, FALSE, FALSE, FALSE, 0,
                          <<"Format check failed">>) ]

DomainFailedResult_FormatReason(email, steps) ==
    [ email |-> email, status |-> STATUS_DO_NOT_CONTACT, confidence |-> "Low",
      reason |-> "Invalid email format (RFC 5322)", retryAfter |-> <<>>,
      details |-> Details(TRUE, FALSE, FALSE, FALSE, FALSE, 0, steps) ]

DomainFailedResult(email, steps) ==
    [ email |-> email, status |-> STATUS_DO_NOT_CONTACT, confidence |-> "Low",
      reason |-> "Invalid domain format", retryAfter |-> <<>>,
      details |-> Details(TRUE, FALSE, FALSE, FALSE, FALSE, 0, steps) ]

NoMxResult_LowConfidence(email, mxRetries, steps) ==
    [ email |-> email, status |-> STATUS_DO_NOT_CONTACT, confidence |-> "Low",
      reason |-> "No MX records found", retryAfter |-> <<>>,
      details |-> Details(TRUE, TRUE, FALSE, FALSE, FALSE, mxRetries, steps) ]

NoMxResult(email, mxRetries, steps) ==
    [ email |-> email, status |-> STATUS_DO_NOT_CONTACT, confidence |-> "High",
      reason |-> "No MX records found", retryAfter |-> <<>>,
      details |-> Details(TRUE, TRUE, FALSE, FALSE, FALSE, mxRetries, steps) ]

RetryLaterResult(email, backoffDelay, smtpRetries, steps) ==
    [ email |-> email, status |-> STATUS_RETRY, confidence |-> "Medium",
      reason |-> "Temporary SMTP failure", retryAfter |-> <<backoffDelay>>,
      details |-> Details(TRUE, TRUE, TRUE, FALSE, FALSE, smtpRetries, steps) ]

SmtpFailedResult_MxUnset(email, smtpRetries, steps) ==
    [ email |-> email, status |-> STATUS_DO_NOT_CONTACT, confidence |-> "High",
      reason |-> "SMTP verification failed", retryAfter |-> <<>>,
      details |-> Details(TRUE, TRUE, FALSE, FALSE, FALSE, smtpRetries, steps) ]

SmtpFailedResult(email, smtpRetries, steps) ==
    [ email |-> email, status |-> STATUS_DO_NOT_CONTACT, confidence |-> "High",
      reason |-> "SMTP verification failed", retryAfter |-> <<>>,
      details |-> Details(TRUE, TRUE, TRUE, FALSE, FALSE, smtpRetries, steps) ]

Max(a, b) == IF a >= b THEN a ELSE b

ValidResult_MxRetriesOnly(email, isCorporate, mxRetries, smtpRetries, steps) ==
    [ email |-> email, status |-> STATUS_VALID, confidence |-> "High",
      reason |-> Absent, retryAfter |-> <<>>,
      details |-> Details(TRUE, TRUE, TRUE, TRUE, isCorporate, mxRetries, steps) ]

ValidResult_CorporateUnset(email, isCorporate, mxRetries, smtpRetries, steps) ==
    [ email |-> email, status |-> STATUS_VALID, confidence |-> "High",
      reason |-> Absent, retryAfter |-> <<>>,
      details |-> Details(TRUE, TRUE, TRUE, TRUE, FALSE,
                          Max(mxRetries, smtpRetries), steps) ]

ValidResult(email, isCorporate, mxRetries, smtpRetries, steps) ==
    [ email |-> email, status |-> STATUS_VALID, confidence |-> "High",
      reason |-> Absent, retryAfter |-> <<>>,
      details |-> Details(TRUE, TRUE, TRUE, TRUE, isCorporate,
                          Max(mxRetries, smtpRetries), steps) ]

\* ------------------------------------------------------------------------
\* validateEmailWithRetry: one address pipeline.  A pipeline is a record of
\* the function's locals, its position (pc) and the calls it has made:
\*   pc         "mxAwait"   awaiting checkMXRecords
\*              "mxSleep"   awaiting the backoff timer of the MX loop
\*              "smtpAwait" awaiting checkSMTP
\*              "smtpSleep" awaiting the backoff timer of the SMTP loop
\*              "returned"  the function has returned, its caller not resumed
\*              "done"      the caller has counted and reported the address
\*   mxCalls, smtpCalls     invocations of each probe
\*   mxSleeps, smtpSleeps   backoff timers started in each loop
\* ------------------------------------------------------------------------

\* what an awaited probe can do
ProbeOutcomes == {"true", "false", "throw"}

Return(t, r) == [t EXCEPT !.pc = "returned", !.result = r]

\* lines 232-298: the verdict after the SMTP loop
Finish(t, options) ==
    IF ~t.smtpValid /\ ~t.isCorporate
    THEN IF t.smtpRetries < options.retryStrategy.maxAttempts
         THEN Return(t, RetryLaterResult(t.email, options.retryStrategy.backoffDelay,
                                         t.smtpRetries, t.verificationSteps))
         ELSE Return(t, SmtpFailedResult(t.email, t.smtpRetries, t.verificationSteps))
    ELSE LET steps == Append(t.verificationSteps, "SMTP verification passed")
         IN  Return([t EXCEPT !.verificationSteps = steps],
                    ValidResult(t.email, t.isCorporate, t.mxRetries, t.smtpRetries, steps))

SmtpLoop_HonoursValidateSMTP(t, options) ==
    IF options.validateSMTP /\ t.smtpRetries < options.retryStrategy.maxAttempts
    THEN [t EXCEPT !.pc = "smtpAwait", !.smtpCalls = @ + 1]
    ELSE Finish(t, options)

\* line 219: the SMTP loop's condition; a true condition invokes checkSMTP
SmtpLoop(t, options) ==
    IF t.smtpRetries < options.retryStrategy.maxAttempts
    THEN [t EXCEPT !.pc = "smtpAwait", !.smtpCalls = @ + 1]
    ELSE Finish(t, options)

SmtpOnThrow_Break(t, options) ==
    Finish(t, options)

\* lines 227-229: checkSMTP raised
SmtpOnThrow(t, options) ==
    SmtpLoop([t EXCEPT !.smtpRetries = @ + 1], options)

\* lines 221-226: checkSMTP returned
SmtpOnValue(t, value, options) ==
    IF value
    THEN Finish([t EXCEPT !.smtpValid = TRUE], options)
    ELSE LET u == [t EXCEPT !.smtpValid = FALSE, !.smtpRetries = @ + 1]
         IN  IF u.smtpRetries < options.retryStrategy.maxAttempts
             THEN [u EXCEPT !.pc = "smtpSleep", !.smtpSleeps = @ + 1]
             ELSE SmtpLoop(u, options)

AfterMx_IgnoreCorporate(t, options) ==
    IF ~t.mxExists
    THEN Return(t, NoMxResult(t.email, t.mxRetries, t.verificationSteps))
    ELSE SmtpLoop([t EXCEPT !.verificationSteps = Append(@, "MX records verified"),
                            !.smtpValid = FALSE, !.smtpRetries = 0], options)

\* lines 192-218: the verdict after the MX loop, then the SMTP loop begins
AfterMx(t, options) ==
    IF ~t.mxExists /\ ~t.isCorporate
    THEN Return(t, NoMxResult(t.email, t.mxRetries, t.verificationSteps))
    ELSE SmtpLoop([t EXCEPT !.verificationSteps = Append(@, "MX records verified"),
                            !.smtpValid = FALSE, !.smtpRetries = 0], options)

\* line 179: the MX loop's condition; a true condition invokes checkMXRecords
MxLoop(t, options) ==
    IF t.mxRetries < options.retryStrategy.maxAttempts
    THEN [t EXCEPT !.pc = "mxAwait", !.mxCalls = @ + 1]
    ELSE AfterMx(t, options)

\* lines 187-189: checkMXRecords raised
MxOnThrow(t, options) ==
    MxLoop([t EXCEPT !.mxRetries = @ + 1], options)

\* lines 181-186: checkMXRecords returned
MxOnValue(t, value, options) ==
    IF value
    THEN AfterMx([t EXCEPT !.mxExists = TRUE], options)
    ELSE LET u == [t EXCEPT !.mxExists = FALSE, !.mxRetries = @ + 1]
         IN  IF u.mxRetries < options.retryStrategy.maxAttempts
             THEN [u EXCEPT !.pc = "mxSleep", !.mxSleeps = @ + 1]
             ELSE MxLoop(u, options)

\* the locals of a pipeline that has just been entered
NewPipeline(email) ==
    [ pc |-> "entered", email |-> email, isCorporate |-> FALSE,
      verificationSteps |-> <<>>, result |-> NoResult,
      mxExists |-> FALSE, mxRetries |-> 0, mxCalls |-> 0, mxSleeps |-> 0,
      smtpValid |-> FALSE, smtpRetries |-> 0, smtpCalls |-> 0, smtpSleeps |-> 0 ]

\* lines 105-179: from the call to the first suspension (or an early return)
validateEmailWithRetry(email, options) ==
    LET t == NewPipeline(email)
    IN  IF ~isEmail(email)
        THEN Return(t, FormatFailedResult(email))
        ELSE LET steps1 == <<"Format check passed">>
             IN  IF ~isFQDN(domainOf(email))
                 THEN Return([t EXCEPT !.verificationSteps = steps1],
                             DomainFailedResult(email, steps1))
                 ELSE LET isCorporate == isEnterpriseDomain(domainOf(email))
                          steps2 == Append(steps1, "Domain format valid")
                          steps3 == IF isCorporate
                                    THEN Append(steps2, "Enterprise domain detected")
                                    ELSE steps2
                      IN  MxLoop([t EXCEPT !.isCorporate = isCorporate,
                                           !.verificationSteps = steps3], options)

\* ------------------------------------------------------------------------
\* chunk
\* ------------------------------------------------------------------------

Min(a, b) == IF a <= b THEN a ELSE b

RECURSIVE chunkFrom(_, _, _, _)
\* lines 344-346: the loop of chunk from index i on (1-based), each piece
\* being array.slice(i, i + width)
chunkFrom(array, size, width, i) ==
    IF i > Len(array)
    THEN <<>>
    ELSE << SubSeq(array, i, Min(i + width - 1, Len(array))) >>
         \o chunkFrom(array, size, width, i + size)

chunk_ShortSlice(array, size) == chunkFrom(array, size, size - 1, 1)

chunk(array, size) == chunkFrom(array, size, size, 1)

\* ------------------------------------------------------------------------
\* parseEmailFile and the file checks
\* ------------------------------------------------------------------------

\* MAX_EMAILS is 40000 in the source; it is scaled to 3 here so that a file
\* of a few tokens exceeds it.
MAX_EMAILS == 3

MAX_FILE_SIZE == 10 * 1024 * 1024

\* a dropped file: size and type are the browser's metadata, text the content
validateFileSize(file) == file.size <= MAX_FILE_SIZE

validateFileType(file) == file.type = "text/csv" \/ file.type = "text/plain"

\* String.prototype.split on a character class, here /[\n,]/: the pieces
\* between the separators, one more than there are separators
splitAny(s, seps) ==
    LET cuts     == {p \in 1..Len(s) : s[p] \in seps}
        cutsTo(p) == Cardinality({q \in cuts : q <= p})
        cut(j)   == IF j = 0 THEN 0
                    ELSE IF j > Cardinality(cuts) THEN Len(s) + 1
                    ELSE CHOOSE p \in cuts : cutsTo(p) = j
    IN  [j \in 1..(Cardinality(cuts) + 1) |->
            SubSeq(s, cut(j - 1) + 1, cut(j) - 1)]

\* the white space String.prototype.trim removes, as far as the files of the
\* model hold any
WhiteSpace == {" ", "\t", "\n", "\r"}

RECURSIVE trimStart(_)
trimStart(s) ==
    IF s # <<>> /\ Head(s) \in WhiteSpace THEN trimStart(Tail(s)) ELSE s

RECURSIVE trimEnd(_)
trimEnd(s) ==
    IF s # <<>> /\ s[Len(s)] \in WhiteSpace
    THEN trimEnd(SubSeq(s, 1, Len(s) - 1))
    ELSE s

\* String.prototype.trim
trim(s) == trimEnd(trimStart(s))

\* String.prototype.includes for one character
includes(s, c) == \E k \in 1..Len(s) : s[k] = c

\* line 54: email && email.includes('@')
keepToken(email) == email # <<>> /\ includes(email, "@")

\* line 55: email.replace(/['"]/g, '')
removeQuotes(email) == SelectSeq(email, LAMBDA c : c \notin {"'", "\""})

\* Array.prototype.slice(0, end)
sliceTo(array, end) == SubSeq(array, 1, Min(end, Len(array)))

parseEmailFile_KeepEveryToken(text) ==
    LET tokens  == splitAny(text, {"\n", ","})
        trimmed == [k \in 1..Len(tokens) |-> trim(tokens[k])]
        kept    == SelectSeq(trimmed, LAMBDA email : email # <<>>)
    IN  sliceTo([k \in 1..Len(kept) |-> removeQuotes(kept[k])], MAX_EMAILS)

parseEmailFile_NoCap(text) ==
    LET tokens  == splitAny(text, {"\n", ","})
        trimmed == [k \in 1..Len(tokens) |-> trim(tokens[k])]
        kept    == SelectSeq(trimmed, keepToken)
    IN  [k \in 1..Len(kept) |-> removeQuotes(kept[k])]

\* lines 50-56: the list parseEmailFile builds; it raises when the list is
\* empty (lines 58-60) and returns it otherwise
parseEmailFile(text) ==
    LET tokens  == splitAny(text, {"\n", ","})
        trimmed == [k \in 1..Len(tokens) |-> trim(tokens[k])]
        kept    == SelectSeq(trimmed, keepToken)
    IN  sliceTo([k \in 1..Len(kept) |-> removeQuotes(kept[k])], MAX_EMAILS)

\* ------------------------------------------------------------------------
\* App: the state of the component and the pure parts of onDrop
\* ------------------------------------------------------------------------

\* a@gmail.com,not-an-email,b@microsoft.com
TEXT_SCENARIO ==
    << "a", "@", "g", "m", "a", "i", "l", ".", "c", "o", "m", ",", "n", "o",
       "t", "-", "a", "n", "-", "e", "m", "a", "i", "l", ",", "b", "@", "m",
       "i", "c", "r", "o", "s", "o", "f", "t", ".", "c", "o", "m" >>

\* the empty file
TEXT_EMPTY ==
    << >>

\* tokens, none of which holds an at sign: no-at, a blank one, x
TEXT_NO_CANDIDATE ==
    << "n", "o", "-", "a", "t", "\n", " ", ",", " ", "x" >>

\* five candidates on three lines, one of them twice, two of them quoted: a@, a@, b@, c@, d@
TEXT_OVER_CAP ==
    << "a", "@", ",", " ", "a", "@", " ", "\n", "\"", "b", "@", "\"", ",", "c",
       "@", "\n", "'", "d", "@", "'" >>

\* a@gmail.com
ADDR_GMAIL ==
    << "a", "@", "g", "m", "a", "i", "l", ".", "c", "o", "m" >>

\* b@microsoft.com
ADDR_MICROSOFT ==
    << "b", "@", "m", "i", "c", "r", "o", "s", "o", "f", "t", ".", "c", "o",
       "m" >>

\* not-an-email
TOKEN_NOT_AN_EMAIL ==
    << "n", "o", "t", "-", "a", "n", "-", "e", "m", "a", "i", "l" >>

Texts == {TEXT_SCENARIO, TEXT_EMPTY, TEXT_NO_CANDIDATE, TEXT_OVER_CAP}

\* acceptedFiles[0] of a drop without a file
NoFile == [present |-> FALSE, size |-> 0, type |-> "", text |-> <<>>]

Files ==
    { [present |-> TRUE, size |-> s, type |-> ty, text |-> tx] :
        s \in {MAX_FILE_SIZE, MAX_FILE_SIZE + 1},
        ty \in {"text/csv", "text/plain", "application/json"},
        tx \in Texts }
    \cup {NoFile}

\* the null of the error state
Null == "null"

ERROR_SIZE == "File size exceeds 10MB limit"
ERROR_TYPE == "Only CSV and TXT files are supported"
ERROR_NO_EMAILS == "No valid emails found in file"
ERROR_NO_RESULTS == "No results generated from validation"

\* how many results have the status
CountStatus(rs, status) == Cardinality({k \in 1..Len(rs) : rs[k].status = status})

\* lines 26-33 and 58-65: a progress snapshot with nothing processed
\* (avgProcessingTime, a reading of the clock, is left out)
ProgressAtStart(total) ==
    [ processed |-> 0, total |-> total, validCount |-> 0, retryCount |-> 0,
      invalidCount |-> 0 ]

\* lines 23-34: the component's state; pc is "none" when validateEmailBatch
\* is called without the component, else "idle", "parsing", "validating" or
\* "ended"; stats is empty for null
AppState(pc, file) ==
    [ pc |-> pc, file |-> file, results |-> <<>>, processing |-> FALSE,
      error |-> Null, progress |-> ProgressAtStart(0), stats |-> <<>> ]

NoApp == AppState("none", NoFile)

\* the results the callbacks of onDrop see: useCallback has no dependencies
\* (line 93), so onDrop closes over the results of the first render
ClosureResults == <<>>

onDropStart_NoSizeCheck(a) ==
    IF ~a.file.present
    THEN [a EXCEPT !.pc = "ended"]
    ELSE IF ~validateFileType(a.file)
    THEN [a EXCEPT !.error = ERROR_TYPE, !.pc = "ended"]
    ELSE [a EXCEPT !.processing = TRUE, !.error = Null, !.results = <<>>,
                   !.pc = "parsing"]

\* lines 37-55: onDrop up to its await of parseEmailFile
onDropStart(a) ==
    IF ~a.file.present
    THEN [a EXCEPT !.pc = "ended"]
    ELSE IF ~validateFileSize(a.file)
    THEN [a EXCEPT !.error = ERROR_SIZE, !.pc = "ended"]
    ELSE IF ~validateFileType(a.file)
    THEN [a EXCEPT !.error = ERROR_TYPE, !.pc = "ended"]
    ELSE [a EXCEPT !.processing = TRUE, !.error = Null, !.results = <<>>,
                   !.pc = "parsing"]

\* lines 55-67 and 88-92: parseEmailFile has settled; an empty list is its
\* error, caught by onDrop
onDropParsed(a, list) ==
    IF list = <<>>
    THEN [a EXCEPT !.error = ERROR_NO_EMAILS, !.processing = FALSE, !.pc = "ended"]
    ELSE [a EXCEPT !.progress = ProgressAtStart(Len(list)), !.pc = "validating"]

\* lines 67-76: the progress callback handed to validateEmailBatch; a call
\* of validateEmailBatch without the component has an observer that keeps no
\* state of its own
onProgress(a, count) ==
    IF a.pc = "validating"
    THEN [a EXCEPT !.progress =
            [ @ EXCEPT !.processed = count,
                       !.validCount = CountStatus(ClosureResults, STATUS_VALID),
                       !.retryCount = CountStatus(ClosureResults, STATUS_RETRY),
                       !.invalidCount = CountStatus(ClosureResults, STATUS_DO_NOT_CONTACT) ]]
    ELSE a

\* line 86: r.reason?.includes('temporary'); no reason the pipeline gives
\* holds the lower-case word
ReasonIncludesTemporary(reason) ==
    reason \in {}

\* lines 78-92: validateEmailBatch has settled
onDropValidated(a, outcome, validationResults) ==
    IF outcome = "raised"
    THEN [a EXCEPT !.error = ERROR_NO_RESULTS, !.processing = FALSE, !.pc = "ended"]
    ELSE [a EXCEPT
            !.results = validationResults,
            !.stats = << [ totalEmails |-> a.progress.total,
                           validEmails |-> CountStatus(validationResults, STATUS_VALID),
                           retryEmails |-> CountStatus(validationResults, STATUS_RETRY),
                           invalidEmails |-> CountStatus(validationResults, STATUS_DO_NOT_CONTACT),
                           corporateEmailsCount |->
                               Cardinality({k \in 1..Len(validationResults) :
                                               validationResults[k].details.corporate}),
                           temporaryFailuresCount |->
                               Cardinality({k \in 1..Len(validationResults) :
                                               ReasonIncludesTemporary(validationResults[k].reason)}) ] >>,
            !.processing = FALSE,
            !.pc = "ended"]

\* ------------------------------------------------------------------------
\* validateEmailBatch
\* ------------------------------------------------------------------------

\* the addresses a run may be given: a plain address, an enterprise domain,
\* a trusted top-level domain in upper case, a token without '@', and a
\* quoted local part holding '@' (valid syntax, but split('@')[1] is not a
\* domain)
ADDR_PLAIN == <<"a","@","g",".","c","o">>  \* a@g.co
ADDR_ENTERPRISE == <<"b","@","i","b","m",".","c","o","m">>  \* b@ibm.com
ADDR_TRUSTED_TLD == <<"c","@","U",".","E","D","U">>  \* c@U.EDU
ADDR_NO_AT == <<"n","o","-","a","t">>  \* no-at
ADDR_QUOTED_AT == <<"\"","a","@","b","\"","@","x",".","c","o">>  \* "a@b"@x.co

Universe ==
    {ADDR_PLAIN, ADDR_ENTERPRISE, ADDR_TRUSTED_TLD, ADDR_NO_AT, ADDR_QUOTED_AT}

RECURSIVE SeqsUpTo(_, _)
\* the sequences over S of length at most n
SeqsUpTo(S, n) ==
    IF n = 0 THEN {<<>>}
    ELSE LET shorter == SeqsUpTo(S, n - 1)
         IN  shorter \cup {Append(s, x) : s \in shorter, x \in S}

OptionsSet ==
    { [ enableRetries |-> TRUE,
        retryStrategy |-> [maxAttempts |-> m, backoffDelay |-> DEFAULT_BACKOFF_DELAY,
                           timeout |-> DEFAULT_TIMEOUT],
        validateSMTP |-> TRUE, strictMode |-> FALSE ] : m \in 1..MaxAttempts }

VARIABLES
    app,         \* the component that called, or NoApp
    emails,      \* the argument of validateEmailBatch
    options,     \* the ValidationOptions of the run
    batch,       \* "idle", "running", "returned" or "raised"
    chunks,      \* chunk(emails, CHUNK_SIZE), as indices into emails
    task,        \* index of emails -> its pipeline
    microtasks,  \* the continuations of settled promises, first in first out
    processed,   \* the shared counter
    progress,    \* the arguments onProgress has been called with, in order
    completed,   \* the indices whose pipeline was counted, in that order
    pushed,      \* the chunks whose results were pushed, in that order
    results,     \* the result collection
    resultsOf    \* for each entry of results, the index of emails it is of

vars ==
    << app, emails, options, batch, chunks, task, microtasks, processed, progress,
       completed, pushed, results, resultsOf >>

RECURSIVE Flatten(_)
Flatten(ss) == IF ss = <<>> THEN <<>> ELSE Head(ss) \o Flatten(Tail(ss))

Range(seq) == {seq[k] : k \in 1..Len(seq)}

\* the continuation of `await validateEmailWithRetry(email, options)` in the
\* map callback of address i (line 314)
AddressContinuation(i) == [kind |-> "address", id |-> i]

\* the continuation of the inner `await Promise.all(...)` of chunk c (line 312)
ChunkContinuation(c) == [kind |-> "chunk", id |-> c]

\* the continuation of the outer `await Promise.all(...)` (line 310)
BatchContinuation == [kind |-> "batch", id |-> 0]

Init ==
    /\ app = NoApp
    /\ emails \in SeqsUpTo(Universe, MaxEmails)
    /\ options \in OptionsSet
    /\ Len(emails) * options.retryStrategy.maxAttempts <= MaxWork
    /\ batch = "idle"
    /\ chunks = <<>>
    /\ task = <<>>
    /\ microtasks = <<>>
    /\ processed = 0
    /\ progress = <<>>
    /\ completed = <<>>
    /\ pushed = <<>>
    /\ results = <<>>
    /\ resultsOf = <<>>

\* lines 306-322: the call runs synchronously until every pipeline has
\* reached its first await; the pipelines that returned early have settled
\* their promise, in the order of the list; with no chunk at all the outer
\* Promise.all is already resolved
StartBatch ==
    /\ batch = "idle"
    /\ batch' = "running"
    /\ LET cs    == chunk([k \in 1..Len(emails) |-> k], CHUNK_SIZE)
           ts    == [i \in Range(Flatten(cs)) |-> validateEmailWithRetry(emails[i], options)]
           early == SelectSeq(Flatten(cs), LAMBDA i : ts[i].pc = "returned")
       IN  /\ chunks' = cs
           /\ task' = ts
           /\ microtasks' =
                 IF cs = <<>>
                 THEN <<BatchContinuation>>
                 ELSE [k \in 1..Len(early) |-> AddressContinuation(early[k])]
    /\ UNCHANGED << app, emails, options, processed, progress, completed, pushed,
                    results, resultsOf >>

Resume_NeverSettles(i, next) ==
    /\ microtasks = <<>>
    /\ task' = [task EXCEPT ![i] = next]
    /\ microtasks' = <<>>
    /\ UNCHANGED << app, emails, options, batch, chunks, processed, progress,
                    completed, pushed, results, resultsOf >>

Resume_Sequential(i, next) ==
    /\ microtasks = <<>>
    /\ \A j \in 1..(i - 1) : task[j].pc \in {"returned", "done"}
    /\ task' = [task EXCEPT ![i] = next]
    /\ microtasks' = IF next.pc = "returned" THEN <<AddressContinuation(i)>> ELSE <<>>
    /\ UNCHANGED << app, emails, options, batch, chunks, processed, progress,
                    completed, pushed, results, resultsOf >>

\* a probe or a timer settles only between tasks of the event loop, when no
\* continuation is pending; a pipeline that returns settles its promise
Resume(i, next) ==
    /\ microtasks = <<>>
    /\ task' = [task EXCEPT ![i] = next]
    /\ microtasks' = IF next.pc = "returned" THEN <<AddressContinuation(i)>> ELSE <<>>
    /\ UNCHANGED << app, emails, options, batch, chunks, processed, progress,
                    completed, pushed, results, resultsOf >>

\* line 181: the awaited checkMXRecords settles
MxProbeSettles(i) ==
    /\ task[i].pc = "mxAwait"
    /\ \E outcome \in ProbeOutcomes :
          Resume(i, IF outcome = "throw"
                    THEN MxOnThrow(task[i], options)
                    ELSE MxOnValue(task[i], outcome = "true", options))

\* line 185: the MX loop's backoff timer fires
MxBackoffElapses(i) ==
    /\ task[i].pc = "mxSleep"
    /\ Resume(i, MxLoop(task[i], options))

\* line 221: the awaited checkSMTP settles
SmtpProbeSettles(i) ==
    /\ task[i].pc = "smtpAwait"
    /\ \E outcome \in ProbeOutcomes :
          Resume(i, IF outcome = "throw"
                    THEN SmtpOnThrow(task[i], options)
                    ELSE SmtpOnValue(task[i], outcome = "true", options))

\* line 225: the SMTP loop's backoff timer fires
SmtpBackoffElapses(i) ==
    /\ task[i].pc = "smtpSleep"
    /\ Resume(i, SmtpLoop(task[i], options))

ReportProgress_PostIncrement(count, calls) ==
    [processed |-> count + 1, progress |-> Append(calls, count)]

\* lines 315-316: processed++; onProgress(processed)
ReportProgress(count, calls) ==
    [processed |-> count + 1, progress |-> Append(calls, count + 1)]

\* the chunk that holds index i
ChunkOf(i) == CHOOSE c \in 1..Len(chunks) : i \in Range(chunks[c])

\* lines 314-317: the map callback of address i resumes with the pipeline's
\* result, counts it and reports it; when it is the last of its chunk, the
\* chunk's Promise.all resolves
AddressCompletes(i) ==
    /\ task[i].pc = "returned"
    /\ task' = [task EXCEPT ![i].pc = "done"]
    /\ processed' = ReportProgress(processed, progress).processed
    /\ progress' = ReportProgress(processed, progress).progress
    /\ app' = onProgress(app, ReportProgress(processed, progress).processed)
    /\ completed' = Append(completed, i)
    /\ microtasks' =
          IF \A j \in Range(chunks[ChunkOf(i)]) \ {i} : task[j].pc = "done"
          THEN Append(Tail(microtasks), ChunkContinuation(ChunkOf(i)))
          ELSE Tail(microtasks)
    /\ UNCHANGED << emails, options, batch, chunks, pushed, results, resultsOf >>

chunkResultsOrder_ByCompletion(c, order) ==
    SelectSeq(order, LAMBDA i : i \in Range(c))

\* lines 312-319: Promise.all over chunk.map keeps the order of the chunk,
\* whatever the order the pipelines completed in
chunkResultsOrder(c, order) == c

\* line 320: results.push(...chunkResults); when it is the last chunk, the
\* outer Promise.all resolves
ChunkCompletes(c) ==
    /\ LET order == chunkResultsOrder(chunks[c], completed)
       IN  /\ results' = results \o [k \in 1..Len(order) |-> task[order[k]].result]
           /\ resultsOf' = resultsOf \o order
    /\ pushed' = Append(pushed, c)
    /\ microtasks' =
          IF Range(pushed) \cup {c} = 1..Len(chunks)
          THEN Append(Tail(microtasks), BatchContinuation)
          ELSE Tail(microtasks)
    /\ UNCHANGED << app, emails, options, batch, chunks, task, processed, progress,
                    completed >>

BatchSettles_NoCheck ==
    /\ batch = "running"
    /\ batch' = "returned"
    /\ microtasks' = Tail(microtasks)
    /\ UNCHANGED << app, emails, options, chunks, task, processed, progress,
                    completed, pushed, results, resultsOf >>

\* lines 324-339: the defensive check, the statistics and the return
BatchSettles ==
    /\ batch = "running"
    /\ batch' = IF Len(results) = 0 THEN "raised" ELSE "returned"
    /\ microtasks' = Tail(microtasks)
    /\ UNCHANGED << app, emails, options, chunks, task, processed, progress,
                    completed, pushed, results, resultsOf >>

MxProbe == \E i \in DOMAIN task : MxProbeSettles(i)

MxBackoff == \E i \in DOMAIN task : MxBackoffElapses(i)

SmtpProbe == \E i \in DOMAIN task : SmtpProbeSettles(i)

SmtpBackoff == \E i \in DOMAIN task : SmtpBackoffElapses(i)

\* the event loop runs the oldest pending continuation
RunMicrotask(kind) ==
    /\ microtasks # <<>>
    /\ Head(microtasks).kind = kind

AddressDone == RunMicrotask("address") /\ AddressCompletes(Head(microtasks).id)

ChunkDone == RunMicrotask("chunk") /\ ChunkCompletes(Head(microtasks).id)

BatchDone == RunMicrotask("batch") /\ BatchSettles

Next ==
    \/ StartBatch
    \/ MxProbe
    \/ MxBackoff
    \/ SmtpProbe
    \/ SmtpBackoff
    \/ AddressDone
    \/ ChunkDone
    \/ BatchDone

Spec == Init /\ [][Next]_vars

\* a step of the pipeline of address i: a probe of it settles or a backoff
\* timer of it fires
PipelineStep(i) ==
    /\ i \in DOMAIN task
    /\ \/ MxProbeSettles(i)
       \/ MxBackoffElapses(i)
       \/ SmtpProbeSettles(i)
       \/ SmtpBackoffElapses(i)

\* the event loop runs a pending continuation
EventLoop == AddressDone \/ ChunkDone \/ BatchDone

\* the batch when every probe and every timer eventually settles and the
\* event loop never stops running pending continuations
FairSpec ==
    /\ Spec
    /\ WF_vars(EventLoop)
    /\ \A i \in 1..MaxEmails : WF_vars(PipelineStep(i))

\* the batch when the probes of one address h may never return, while the
\* probes and the timers of every other address eventually settle
HangSpec ==
    /\ Spec
    /\ WF_vars(EventLoop)
    /\ \E h \in 1..MaxEmails :
          \A i \in (1..MaxEmails) \ {h} : WF_vars(PipelineStep(i))

\* a timeout other than the default one
ALT_TIMEOUT == 1000

\* every value of the options the pipeline is handed: the two flags, the
\* mode and the timeout vary along with maxAttempts
AllOptionsSet ==
    { [ enableRetries |-> e,
        retryStrategy |-> [maxAttempts |-> m, backoffDelay |-> DEFAULT_BACKOFF_DELAY,
                           timeout |-> t],
        validateSMTP |-> v, strictMode |-> s ] :
        e \in BOOLEAN, v \in BOOLEAN, s \in BOOLEAN,
        t \in {DEFAULT_TIMEOUT, ALT_TIMEOUT}, m \in 1..MaxAttempts }

\* validateEmailBatch on one address under any options
InitOptions ==
    /\ app = NoApp
    /\ emails \in {<<e>> : e \in Universe}
    /\ options \in AllOptionsSet
    /\ batch = "idle"
    /\ chunks = <<>>
    /\ task = <<>>
    /\ microtasks = <<>>
    /\ processed = 0
    /\ progress = <<>>
    /\ completed = <<>>
    /\ pushed = <<>>
    /\ results = <<>>
    /\ resultsOf = <<>>

SpecOptions == InitOptions /\ [][Next]_vars

\* ------------------------------------------------------------------------
\* App: a file is dropped on the component, which parses it and calls
\* validateEmailBatch with the default options
\* ------------------------------------------------------------------------

DEFAULT_MAX_ATTEMPTS == 3

DEFAULT_OPTIONS ==
    [ enableRetries |-> TRUE,
      retryStrategy |-> [maxAttempts |-> DEFAULT_MAX_ATTEMPTS,
                         backoffDelay |-> DEFAULT_BACKOFF_DELAY,
                         timeout |-> DEFAULT_TIMEOUT],
      validateSMTP |-> TRUE, strictMode |-> FALSE ]

InitApp ==
    /\ app \in {AppState("idle", f) : f \in Files}
    /\ emails = <<>>
    /\ options = DEFAULT_OPTIONS
    /\ batch = "uncalled"
    /\ chunks = <<>>
    /\ task = <<>>
    /\ microtasks = <<>>
    /\ processed = 0
    /\ progress = <<>>
    /\ completed = <<>>
    /\ pushed = <<>>
    /\ results = <<>>
    /\ resultsOf = <<>>

\* lines 36-55: a drop
OnDrop ==
    /\ app.pc = "idle"
    /\ app' = onDropStart(app)
    /\ UNCHANGED << emails, options, batch, chunks, task, microtasks, processed,
                    progress, completed, pushed, results, resultsOf >>

\* lines 55-67: the awaited parseEmailFile settles; with a list, onDrop goes
\* on to call validateEmailBatch (StartBatch, the only step then possible)
ParseSettles ==
    /\ app.pc = "parsing"
    /\ LET list == parseEmailFile(app.file.text)
       IN  /\ app' = onDropParsed(app, list)
           /\ IF list = <<>>
              THEN UNCHANGED << emails, batch >>
              ELSE /\ emails' = list
                   /\ batch' = "idle"
    /\ UNCHANGED << options, chunks, task, microtasks, processed, progress,
                    completed, pushed, results, resultsOf >>

\* lines 78-92: the awaited validateEmailBatch has settled
ValidationSettles ==
    /\ app.pc = "validating"
    /\ batch \in {"returned", "raised"}
    /\ app' = onDropValidated(app, batch, results)
    /\ UNCHANGED << emails, options, batch, chunks, task, microtasks, processed,
                    progress, completed, pushed, results, resultsOf >>

NextApp ==
    \/ OnDrop
    \/ ParseSettles
    \/ StartBatch
    \/ MxProbe
    \/ MxBackoff
    \/ SmtpProbe
    \/ SmtpBackoff
    \/ AddressDone
    \/ ChunkDone
    \/ BatchDone
    \/ ValidationSettles

SpecApp == InitApp /\ [][NextApp]_vars

\* every address a run of either specification can be given
Addresses ==
    Universe \cup UNION {Range(parseEmailFile(text)) : text \in Texts}


\* ------------------------------------------------------------------------
\* Vocabulary of the properties
\* ------------------------------------------------------------------------

Returned(i) == task[i].pc \in {"returned", "done"}

\* the three classifications of every address, computed once
FormatOkOf == [e \in Addresses |-> isEmail(e)]

DomainOkOf == [e \in Addresses |-> isFQDN(domainOf(e))]

CorporateOf == [e \in Addresses |-> isEnterpriseDomain(domainOf(e))]

FormatOk(i) == FormatOkOf[emails[i]]

DomainOk(i) == DomainOkOf[emails[i]]

Corporate(i) == CorporateOf[emails[i]]

Probed(i) == FormatOk(i) /\ DomainOk(i)

maxAttempts == options.retryStrategy.maxAttempts

\* the MX loop of pipeline i is over
PastMx(i) == task[i].pc \in {"smtpAwait", "smtpSleep", "returned", "done"}

\* how many entries of seq equal x
Count(seq, x) == Cardinality({k \in 1..Len(seq) : seq[k] = x})

\* the position of x in a sequence that holds it once
PositionIn(seq, x) == CHOOSE k \in 1..Len(seq) : seq[k] = x

\* ------------------------------------------------------------------------
\* Properties
\* ------------------------------------------------------------------------

\* something the running batch still waits for: a continuation to run, a
\* probe to settle or a backoff timer to fire
Pending ==
    \/ microtasks # <<>>
    \/ \E i \in DOMAIN task :
          task[i].pc \in {"mxAwait", "mxSleep", "smtpAwait", "smtpSleep"}

\* C1: for a non-empty address list and any behaviour of the two probes
\* (true, false or an error on any attempt) the batch never raises, a
\* running batch always has something pending that lets it go on, and what
\* the batch returns holds exactly one result per input address: same
\* length, and the same multiset of email values.
C1_OneResultPerAddress ==
    emails # <<>> =>
        /\ batch # "raised"
        /\ batch = "running" => Pending
        /\ batch = "returned" =>
              /\ Len(results) = Len(emails)
              /\ \A e \in Universe :
                    Count([k \in 1..Len(results) |-> results[k].email], e)
                        = Count(emails, e)

\* a returned batch of several addresses in which an MX probe raised (two
\* failed attempts and no backoff in between)
C1_Witness ==
    /\ batch = "returned"
    /\ Len(emails) >= 2
    /\ \E i \in DOMAIN task :
          /\ task[i].mxRetries = 2
          /\ task[i].mxSleeps = 0

\* C2: an address that fails the syntax check, or passes it and fails the
\* domain check, has returned before any await: Do Not Contact, Low, no
\* probe invoked, no backoff taken, retryCount 0, exactly one verification
\* step.
C2_StructuralFailureShortCircuits ==
    \A i \in DOMAIN task :
        (~FormatOk(i) \/ (FormatOk(i) /\ ~DomainOk(i))) =>
            /\ Returned(i)
            /\ task[i].result.status = STATUS_DO_NOT_CONTACT
            /\ task[i].result.confidence = "Low"
            /\ task[i].result.details.retryCount = 0
            /\ Len(task[i].result.details.verificationSteps) = 1
            /\ task[i].mxCalls = 0
            /\ task[i].smtpCalls = 0
            /\ task[i].mxSleeps = 0
            /\ task[i].smtpSleeps = 0

\* a run that has reported both a syntax failure and a domain failure
C2_Witness ==
    \E i, j \in DOMAIN task :
        /\ ~FormatOk(i)
        /\ FormatOk(j) /\ ~DomainOk(j)
        /\ task[i].pc = "done"
        /\ task[j].pc = "done"

\* C3: an address that passes both checks and whose domain is corporate
\* ends Valid, High, details.corporate true, whatever the probes did.
C3_CorporateIsValid ==
    \A i \in DOMAIN task :
        (Probed(i) /\ Corporate(i) /\ Returned(i)) =>
            /\ task[i].result.status = STATUS_VALID
            /\ task[i].result.confidence = "High"
            /\ task[i].result.details.corporate = TRUE

\* a corporate address whose two probes failed on every one of at least two
\* attempts
C3_Witness ==
    \E i \in DOMAIN task :
        /\ Probed(i) /\ Corporate(i) /\ Returned(i)
        /\ maxAttempts >= 2
        /\ ~task[i].mxExists /\ task[i].mxRetries = maxAttempts
        /\ ~task[i].smtpValid /\ task[i].smtpRetries = maxAttempts

\* C4: for an address on a corporate domain neither probe is ever invoked
\* and no backoff delay is taken.
C4_CorporateBypassesProbes ==
    \A i \in DOMAIN task :
        (Probed(i) /\ Corporate(i)) =>
            /\ task[i].mxCalls = 0
            /\ task[i].smtpCalls = 0
            /\ task[i].mxSleeps = 0
            /\ task[i].smtpSleeps = 0

\* C5: for a non-corporate address that passes both checks, once the MX
\* loop is over: either the resolver succeeded, and then 'MX records
\* verified' is the last step recorded before the transport stage, which has
\* invoked its probe; or the resolver failed on all maxAttempts attempts, and
\* then the pipeline has returned Do Not Contact, High, "No MX records
\* found", mxRecords and smtp false, without any transport probe.
C5_ResolverStage ==
    \A i \in DOMAIN task :
        (Probed(i) /\ ~Corporate(i) /\ PastMx(i)) =>
            IF task[i].mxExists
            THEN /\ task[i].mxCalls = task[i].mxRetries + 1
                 /\ task[i].verificationSteps[3] = "MX records verified"
                 /\ task[i].smtpCalls >= 1
            ELSE /\ task[i].mxRetries = maxAttempts
                 /\ task[i].mxCalls = maxAttempts
                 /\ Returned(i)
                 /\ task[i].result.status = STATUS_DO_NOT_CONTACT
                 /\ task[i].result.confidence = "High"
                 /\ task[i].result.reason = "No MX records found"
                 /\ task[i].result.details.mxRecords = FALSE
                 /\ task[i].result.details.smtp = FALSE
                 /\ task[i].smtpCalls = 0

\* a run in which one address exhausted at least two resolver attempts and
\* another went on to the transport stage after a retried resolver success
C5_Witness ==
    \E i, j \in DOMAIN task :
        /\ Probed(i) /\ ~Corporate(i) /\ Returned(i)
        /\ ~task[i].mxExists /\ task[i].mxRetries >= 2
        /\ Probed(j) /\ ~Corporate(j)
        /\ task[j].mxExists /\ task[j].mxRetries >= 1
        /\ task[j].pc = "smtpAwait"

\* C6: a non-corporate address that passed the resolver stage and whose
\* transport probe failed on all maxAttempts attempts ends Do Not Contact,
\* High, "SMTP verification failed", mxRecords true, smtp false.
C6_TransportExhausted ==
    \A i \in DOMAIN task :
        (/\ Probed(i) /\ ~Corporate(i) /\ Returned(i)
         /\ task[i].mxExists
         /\ task[i].smtpRetries = maxAttempts) =>
            /\ task[i].smtpCalls = maxAttempts
            /\ task[i].result.status = STATUS_DO_NOT_CONTACT
            /\ task[i].result.confidence = "High"
            /\ task[i].result.reason = "SMTP verification failed"
            /\ task[i].result.details.mxRecords = TRUE
            /\ task[i].result.details.smtp = FALSE

\* a transport stage that failed on each of at least two attempts
C6_Witness ==
    \E i \in DOMAIN task :
        /\ Probed(i) /\ ~Corporate(i) /\ Returned(i)
        /\ task[i].mxExists
        /\ maxAttempts >= 2
        /\ task[i].smtpRetries = maxAttempts

\* C7: the Retry Later branch is dead: no returned pipeline has status Retry
\* Later, reason "Temporary SMTP failure" or a retryAfter value, and a
\* transport stage that ended in failure for a non-corporate address has an
\* attempt counter not less than maxAttempts.
C7_RetryLaterIsDead ==
    \A i \in DOMAIN task :
        Returned(i) =>
            /\ task[i].result.status # STATUS_RETRY
            /\ task[i].result.reason # "Temporary SMTP failure"
            /\ task[i].result.retryAfter = <<>>
            /\ (Probed(i) /\ ~Corporate(i) /\ task[i].mxExists /\ ~task[i].smtpValid)
                  => task[i].smtpRetries >= maxAttempts

\* a failed transport stage of a non-corporate address in which a probe
\* raised (fewer backoffs than failed attempts allow)
C7_Witness ==
    \E i \in DOMAIN task :
        /\ Probed(i) /\ ~Corporate(i) /\ Returned(i)
        /\ task[i].mxExists /\ ~task[i].smtpValid
        /\ maxAttempts >= 2
        /\ task[i].smtpSleeps < maxAttempts - 1

\* the verification steps of a Valid result
ValidSteps(corporate) ==
    <<"Format check passed", "Domain format valid">>
    \o (IF corporate THEN <<"Enterprise domain detected">> ELSE <<>>)
    \o <<"MX records verified", "SMTP verification passed">>

\* C8: a returned pipeline is Valid exactly when the syntax and domain
\* checks passed and each probe stage succeeded or was overridden by
\* isCorporate; a Valid result is High, has details.corporate equal to
\* isCorporate, and its verification steps are, in order: format passed,
\* domain valid, the enterprise note iff corporate, MX verified, SMTP passed.
C8_ValidExactlyWhenAllPassed ==
    \A i \in DOMAIN task :
        Returned(i) =>
            /\ task[i].result.status = STATUS_VALID <=>
                  /\ FormatOk(i)
                  /\ DomainOk(i)
                  /\ task[i].mxExists \/ Corporate(i)
                  /\ task[i].smtpValid \/ Corporate(i)
            /\ task[i].result.status = STATUS_VALID =>
                  /\ task[i].result.confidence = "High"
                  /\ task[i].result.details.corporate = Corporate(i)
                  /\ task[i].result.details.verificationSteps
                        = ValidSteps(Corporate(i))

\* a run with a Valid result by corporate override of two failed stages, a
\* Valid result of a non-corporate address, and a result that is not Valid
C8_Witness ==
    \E i, j, k \in DOMAIN task :
        /\ Returned(i) /\ Returned(j) /\ Returned(k)
        /\ Corporate(i) /\ ~task[i].mxExists /\ ~task[i].smtpValid
        /\ task[i].result.status = STATUS_VALID
        /\ Probed(j) /\ ~Corporate(j)
        /\ task[j].result.status = STATUS_VALID
        /\ task[k].result.status # STATUS_VALID

\* C9: under every interleaving of the pipelines the progress callback has
\* been invoked once per completed address, with the values 1, 2, ... in
\* that order and none skipped or repeated, the shared counter equals the
\* number of completed addresses, and when the batch has returned the last
\* value equals the number of input addresses.
C9_ProgressCountsEveryAddress ==
    /\ progress = [k \in 1..Len(progress) |-> k]
    /\ Len(progress) = Len(completed)
    /\ processed = Len(completed)
    /\ Range(completed) = {i \in DOMAIN task : task[i].pc = "done"}
    /\ \A i \in DOMAIN task : Count(completed, i) <= 1
    /\ batch = "returned" =>
          /\ Len(progress) = Len(emails)
          /\ progress[Len(progress)] = Len(emails)

\* a returned batch of three addresses that completed in an order other
\* than the input order
C9_Witness ==
    /\ batch = "returned"
    /\ Len(emails) = 3
    /\ completed # <<1, 2, 3>>
    /\ progress = <<1, 2, 3>>

\* the position in completed at which the last address of chunk c completed
ChunkCompletedAt(c) ==
    CHOOSE m \in 1..Len(completed) :
        /\ completed[m] \in Range(chunks[c])
        /\ \A i \in Range(chunks[c]) : PositionIn(completed, i) <= m

\* C10 as stated: the returned collection is ordered by completion, the
\* result of the address that completed first coming first.
C10_OrderedByCompletion ==
    batch = "returned" =>
        \A j, k \in 1..Len(resultsOf) :
            j < k => PositionIn(completed, resultsOf[j])
                        < PositionIn(completed, resultsOf[k])

\* C10 amended: the returned collection holds the result of every address
\* at the place resultsOf says; two results of the same group are in input
\* order whatever the order their pipelines completed in; two results of
\* different groups are in the order in which the groups completed (a group
\* completes when its last address does).
C10_GroupsByCompletionInputOrderWithin ==
    batch = "returned" =>
        /\ Len(resultsOf) = Len(results)
        /\ \A k \in 1..Len(results) : results[k] = task[resultsOf[k]].result
        /\ \A j, k \in 1..Len(resultsOf) :
              j < k =>
                  IF ChunkOf(resultsOf[j]) = ChunkOf(resultsOf[k])
                  THEN resultsOf[j] < resultsOf[k]
                  ELSE ChunkCompletedAt(ChunkOf(resultsOf[j]))
                          < ChunkCompletedAt(ChunkOf(resultsOf[k]))

\* a returned batch of three addresses in which the second group completed
\* before the first, and the second address of the first group before the
\* first
C10_Witness ==
    /\ batch = "returned"
    /\ Len(emails) = 3
    /\ completed = <<3, 2, 1>>
    /\ resultsOf = <<3, 1, 2>>

\* ------------------------------------------------------------------------
\* Properties of the component (SpecApp)
\* ------------------------------------------------------------------------

\* the candidate tokens of a file content, in order: the comma- or newline-
\* separated pieces that hold an at sign, trimmed and without quotes
CandidatesOf ==
    [text \in Texts |->
        LET pieces == splitAny(text, {"\n", ","})
        IN  SelectSeq([k \in 1..Len(pieces) |-> removeQuotes(trim(pieces[k]))],
                      LAMBDA s : includes(s, "@"))]

\* the file passes the two checks made before parsing
AcceptedFile(f) ==
    /\ f.present
    /\ f.size <= MAX_FILE_SIZE
    /\ f.type \in {"text/csv", "text/plain"}

\* the upload has a file-level error
FileError(f) ==
    /\ f.present
    /\ \/ f.size > MAX_FILE_SIZE
       \/ f.type \notin {"text/csv", "text/plain"}
       \/ CandidatesOf[f.text] = <<>>

\* C11: when the dropped file is too large, of another type than CSV or
\* plain text, or holds no candidate address, validateEmailBatch is never
\* called, no pipeline and so no probe runs, the progress callback is never
\* called, and once onDrop has ended the error is set and the processing
\* flag is false.
C11_FileErrorStopsTheRun ==
    (app.pc # "none" /\ FileError(app.file)) =>
        /\ batch = "uncalled"
        /\ DOMAIN task = {}
        /\ progress = <<>>
        /\ processed = 0
        /\ app.progress.processed = 0
        /\ app.pc = "ended" => (app.error # Null /\ ~app.processing)

\* a drop of an accepted file without a candidate has ended with the parse
\* error
C11_Witness ==
    /\ app.pc = "ended"
    /\ AcceptedFile(app.file)
    /\ app.file.text = TEXT_NO_CANDIDATE
    /\ app.error = ERROR_NO_EMAILS
    /\ ~app.processing

\* the run on the three-token scenario has ended without an error
ScenarioEnded ==
    /\ app.pc = "ended"
    /\ app.error = Null
    /\ app.file.text = TEXT_SCENARIO

\* C12 as stated: the scenario yields 3 results, one per token; the token
\* not-an-email has a Do Not Contact, Low result, and b@microsoft.com is
\* Valid, High, corporate.
C12_ScenarioYieldsThreeResults ==
    ScenarioEnded =>
        /\ Len(app.results) = 3
        /\ \E k \in 1..Len(app.results) :
              /\ app.results[k].email = TOKEN_NOT_AN_EMAIL
              /\ app.results[k].status = STATUS_DO_NOT_CONTACT
              /\ app.results[k].confidence = "Low"
        /\ \E k \in 1..Len(app.results) :
              /\ app.results[k].email = ADDR_MICROSOFT
              /\ app.results[k].status = STATUS_VALID
              /\ app.results[k].confidence = "High"
              /\ app.results[k].details.corporate

\* C12 amended: the scenario yields 2 results, for a@gmail.com and
\* b@microsoft.com in that order; the token not-an-email holds no at sign,
\* is dropped by the parser and has no result; b@microsoft.com is Valid,
\* High, corporate whatever the probes did.
C12_ScenarioYieldsTwoResults ==
    ScenarioEnded =>
        /\ Len(app.results) = 2
        /\ app.results[1].email = ADDR_GMAIL
        /\ app.results[2].email = ADDR_MICROSOFT
        /\ \A k \in 1..Len(app.results) : app.results[k].email # TOKEN_NOT_AN_EMAIL
        /\ app.results[2].status = STATUS_VALID
        /\ app.results[2].confidence = "High"
        /\ app.results[2].details.corporate

\* the scenario has ended with every probe of b@microsoft.com failed and
\* a@gmail.com not Valid
C12_Witness ==
    /\ ScenarioEnded
    /\ Len(app.results) = 2
    /\ app.results[1].status = STATUS_DO_NOT_CONTACT
    /\ ~task[2].mxExists /\ task[2].mxRetries = DEFAULT_MAX_ATTEMPTS
    /\ ~task[2].smtpValid /\ task[2].smtpRetries = DEFAULT_MAX_ATTEMPTS

\* C13: for an accepted file, the parsed list is the first MAX_EMAILS
\* candidates in input order, duplicates included (all of them when there
\* are no more than MAX_EMAILS); with more candidates than MAX_EMAILS there is
\* no error, and exactly MAX_EMAILS addresses are validated.
C13_ParserKeepsOrderAndCaps ==
    (app.pc \in {"validating", "ended"} /\ AcceptedFile(app.file)) =>
        LET candidates == CandidatesOf[app.file.text]
            kept       == IF Len(candidates) <= MAX_EMAILS
                          THEN Len(candidates) ELSE MAX_EMAILS
        IN  IF candidates = <<>>
            THEN app.error = ERROR_NO_EMAILS
            ELSE /\ app.error = Null
                 /\ emails = SubSeq(candidates, 1, kept)
                 /\ app.progress.total = kept
                 /\ batch # "idle" => DOMAIN task = 1..kept
                 /\ app.pc = "ended" =>
                       /\ Len(app.results) = kept
                       /\ processed = kept

\* a file of more candidates than MAX_EMAILS, one of them twice among the
\* first MAX_EMAILS, was validated to the end
C13_Witness ==
    /\ app.pc = "ended"
    /\ app.file.text = TEXT_OVER_CAP
    /\ Len(CandidatesOf[app.file.text]) > MAX_EMAILS
    /\ Len(app.results) = MAX_EMAILS
    /\ app.results[1].email = app.results[2].email

\* ------------------------------------------------------------------------
\* Reasons, the no-results error (Spec)
\* ------------------------------------------------------------------------

\* C16 as stated: the reason of a structural failure is exactly "Invalid
\* email format" when the syntax check fails and exactly "Invalid domain
\* format" when the domain check fails.
C16_ReasonsAsStated ==
    \A i \in DOMAIN task :
        Returned(i) =>
            /\ ~FormatOk(i) => task[i].result.reason = "Invalid email format"
            /\ (FormatOk(i) /\ ~DomainOk(i)) =>
                  task[i].result.reason = "Invalid domain format"

\* C16 amended: the reason of a structural failure is exactly "Invalid
\* email format (RFC 5322)" when the syntax check fails and exactly
\* "Invalid domain format" when the domain check fails.
C16_ReasonNamesTheFailedCheck ==
    \A i \in DOMAIN task :
        Returned(i) =>
            /\ ~FormatOk(i) =>
                  task[i].result.reason = "Invalid email format (RFC 5322)"
            /\ (FormatOk(i) /\ ~DomainOk(i)) =>
                  task[i].result.reason = "Invalid domain format"

\* both structural failures are in the returned collection, each with its
\* reason
C16_Witness ==
    /\ batch = "returned"
    /\ \E k, l \in 1..Len(results) :
          /\ results[k].reason = "Invalid email format (RFC 5322)"
          /\ results[l].reason = "Invalid domain format"

\* C17: the batch raises the no-results error exactly when the result
\* collection is empty after processing, and that is exactly when the input
\* list is empty: for a non-empty list the batch never raises, for an empty
\* list it never returns, and it raises with no pipeline started, no probe
\* invoked and no progress callback made.
C17_NoResultsErrorIffEmptyInput ==
    /\ batch = "raised" => (results = <<>> /\ emails = <<>>)
    /\ batch = "returned" => (results # <<>> /\ emails # <<>>)
    /\ emails = <<>> =>
          /\ DOMAIN task = {}
          /\ progress = <<>>
          /\ processed = 0
          /\ results = <<>>

\* the batch was called with an empty list and has raised
C17_Witness ==
    /\ emails = <<>>
    /\ batch = "raised"
    /\ microtasks = <<>>

\* ------------------------------------------------------------------------
\* The retry loops (Spec)
\* ------------------------------------------------------------------------

\* the SMTP loop of pipeline i was entered and is over
PastSmtp(i) == Returned(i) /\ task[i].smtpCalls > 0

\* C18 as stated: a probe that fails k times, k < maxAttempts, and then
\* succeeds was invoked k + 1 times, the success ends the stage at once, and
\* the stage has suspended for the backoff delay k times, once before each
\* retry.
C18_SuccessAfterFailures ==
    \A i \in DOMAIN task :
        /\ task[i].mxExists =>
              LET k == task[i].mxRetries
              IN  /\ k < maxAttempts
                  /\ task[i].mxCalls = k + 1
                  /\ task[i].mxSleeps = k
        /\ task[i].smtpValid =>
              LET k == task[i].smtpRetries
              IN  /\ k < maxAttempts
                  /\ task[i].smtpCalls = k + 1
                  /\ task[i].smtpSleeps = k

\* C19 as stated: no stage invokes its probe more than maxAttempts times,
\* and a stage whose probe failed on every attempt has made maxAttempts
\* invocations, counted maxAttempts attempts and taken maxAttempts - 1
\* backoff delays.
C19_ExhaustionBound ==
    \A i \in DOMAIN task :
        /\ task[i].mxCalls <= maxAttempts
        /\ task[i].smtpCalls <= maxAttempts
        /\ (Probed(i) /\ PastMx(i) /\ ~task[i].mxExists) =>
              /\ task[i].mxCalls = maxAttempts
              /\ task[i].mxRetries = maxAttempts
              /\ task[i].mxSleeps = maxAttempts - 1
        /\ (PastSmtp(i) /\ ~task[i].smtpValid) =>
              /\ task[i].smtpCalls = maxAttempts
              /\ task[i].smtpRetries = maxAttempts
              /\ task[i].smtpSleeps = maxAttempts - 1

\* the backoff delays a stage has taken after the given number of failed
\* attempts when every failed attempt with attempts remaining is followed by
\* one
BackoffsDue(failed) == IF failed < maxAttempts THEN failed ELSE maxAttempts - 1

\* C20 as stated: an attempt that raises counts and is followed by a backoff
\* exactly as one that returns false, so whatever the kinds of the failures
\* were, a stage has taken one backoff delay per failed attempt that left
\* attempts remaining.
C20_RaisedHandledAsFalse ==
    \A i \in DOMAIN task :
        /\ task[i].mxSleeps = BackoffsDue(task[i].mxRetries)
        /\ task[i].smtpSleeps = BackoffsDue(task[i].smtpRetries)

\* ------------------------------------------------------------------------
\* Termination and independence (FairSpec, HangSpec)
\* ------------------------------------------------------------------------

\* the completion of address i was reported through the progress callback
Reported(i) ==
    /\ i \in DOMAIN task
    /\ task[i].pc = "done"
    /\ i \in Range(completed)
    /\ Len(progress) >= PositionIn(completed, i)

\* C14: when every probe and every backoff timer eventually settles and the
\* event loop runs the pending continuations, a batch started on a non-empty
\* list eventually returns, with every address completed and one result per
\* address, whatever the probes answered.
C14_BatchRunsToCompletion ==
    (batch = "running" /\ emails # <<>>) ~>
        /\ batch = "returned"
        /\ \A i \in DOMAIN task : Reported(i)
        /\ Len(results) = Len(emails)

\* a batch has returned after both kinds of backoff timers were awaited and a
\* probe had raised
C14_Witness ==
    /\ batch = "returned"
    /\ \E i \in DOMAIN task :
          /\ task[i].mxSleeps >= 1
          /\ task[i].smtpSleeps >= 1
          /\ task[i].smtpRetries > task[i].smtpSleeps

\* C15: when the probe of one address never returns, every other address of
\* the batch, of the same group or of another, still completes its pipeline
\* and has its completion reported: of any two addresses of a running batch
\* at least one is eventually reported.
C15_OthersCompleteDespiteHang ==
    \A i \in 1..MaxEmails : \A j \in (i + 1)..MaxEmails :
        (batch = "running" /\ j <= Len(emails)) ~> (Reported(i) \/ Reported(j))

\* the first MX probe of the first address has not returned, and the other
\* address of its group and the address of the next group, both probed, have
\* completed and were reported
C15_Witness ==
    /\ batch = "running"
    /\ DOMAIN task = 1..3
    /\ \A i \in 1..3 : Probed(i)
    /\ task[1].pc = "mxAwait" /\ task[1].mxCalls = 1
    /\ Reported(2) /\ Reported(3)
    /\ ChunkOf(1) = ChunkOf(2) /\ ChunkOf(3) # ChunkOf(1)
    /\ progress = <<1, 2>>

\* ------------------------------------------------------------------------
\* retryCount (Spec)
\* ------------------------------------------------------------------------

\* the attempts of a stage that failed: every invocation of its probe but the
\* one that succeeded
MxFailedAttempts(i) == task[i].mxCalls - (IF task[i].mxExists THEN 1 ELSE 0)

SmtpFailedAttempts(i) == task[i].smtpCalls - (IF task[i].smtpValid THEN 1 ELSE 0)

\* C21 as stated: in every Valid result details.retryCount is the larger of
\* the numbers of attempts the resolver stage and the transport stage made
\* (1 when both probes succeed at once), and in every result
\* 0 <= retryCount <= maxAttempts.
C21_RetryCountIsMaxAttemptsMade ==
    \A i \in DOMAIN task :
        Returned(i) =>
            /\ task[i].result.status = STATUS_VALID =>
                  task[i].result.details.retryCount
                      = Max(task[i].mxCalls, task[i].smtpCalls)
            /\ task[i].result.details.retryCount \in 0..maxAttempts

\* C21 amended: in every Valid result details.retryCount is the larger of
\* the numbers of failed attempts of the resolver stage and of the transport
\* stage (0 when both probes succeed at once), and in every result
\* 0 <= retryCount <= maxAttempts.
C21_RetryCountIsMaxFailedAttempts ==
    \A i \in DOMAIN task :
        Returned(i) =>
            /\ task[i].result.status = STATUS_VALID =>
                  task[i].result.details.retryCount
                      = Max(MxFailedAttempts(i), SmtpFailedAttempts(i))
            /\ task[i].result.details.retryCount \in 0..maxAttempts

\* two Valid results are returned: one of probes that both succeeded at
\* once, one whose transport stage failed more often than its resolver stage
C21_Witness ==
    \E i, j \in DOMAIN task :
        /\ Returned(i) /\ Returned(j)
        /\ task[i].result.status = STATUS_VALID
        /\ task[i].mxCalls = 1 /\ task[i].smtpCalls = 1
        /\ task[i].result.details.retryCount = 0
        /\ task[j].result.status = STATUS_VALID
        /\ SmtpFailedAttempts(j) > MxFailedAttempts(j)
        /\ task[j].result.details.retryCount = SmtpFailedAttempts(j)

\* ------------------------------------------------------------------------
\* Progress snapshots (SpecApp)
\* ------------------------------------------------------------------------

\* how many of the completed addresses have a result of the status
CompletedWithStatus(status) ==
    Cardinality({i \in Range(completed) : task[i].result.status = status})

\* C22 as stated: after the progress callback for the p-th completed address
\* the snapshot has processed = p, total = the number of parsed addresses,
\* and validCount, retryCount and invalidCount are the numbers of completed
\* addresses with that status, so that they add up to p.
C22_SnapshotCountsCompletedResults ==
    (app.pc = "validating" /\ progress # <<>>) =>
        LET p == Len(progress)
        IN  /\ app.progress.processed = p
            /\ app.progress.total = Len(emails)
            /\ app.progress.validCount = CompletedWithStatus(STATUS_VALID)
            /\ app.progress.retryCount = CompletedWithStatus(STATUS_RETRY)
            /\ app.progress.invalidCount = CompletedWithStatus(STATUS_DO_NOT_CONTACT)
            /\ app.progress.validCount + app.progress.retryCount
                  + app.progress.invalidCount = p

\* ------------------------------------------------------------------------
\* The options the pipeline reads (SpecOptions)
\* ------------------------------------------------------------------------

\* the options that differ from o at most in enableRetries, validateSMTP,
\* strictMode and retryStrategy.timeout
SameStrategy(o) ==
    {x \in AllOptionsSet :
        /\ x.retryStrategy.maxAttempts = o.retryStrategy.maxAttempts
        /\ x.retryStrategy.backoffDelay = o.retryStrategy.backoffDelay}

\* C23: a run under options that differ from those of this run only in
\* enableRetries, validateSMTP, strictMode or retryStrategy.timeout goes
\* through the same pipeline states on the same probe outcomes: it enters
\* the pipeline in the same state and, from the state the pipeline is in,
\* every probe outcome and every timer leads it to the same next state, so
\* that verdict, retryCount and the invocations and delays made are the
\* same.  In particular the transport probe is invoked when validateSMTP is
\* false, and a failed stage has made maxAttempts attempts when
\* enableRetries is false.
C23_OnlyTheRetryStrategyMatters ==
    \A i \in DOMAIN task :
        /\ \A o \in SameStrategy(options) :
              /\ validateEmailWithRetry(emails[i], o)
                    = validateEmailWithRetry(emails[i], options)
              /\ task[i].pc = "mxAwait" =>
                    /\ MxOnThrow(task[i], o) = MxOnThrow(task[i], options)
                    /\ \A value \in BOOLEAN :
                          MxOnValue(task[i], value, o)
                              = MxOnValue(task[i], value, options)
              /\ task[i].pc = "mxSleep" =>
                    MxLoop(task[i], o) = MxLoop(task[i], options)
              /\ task[i].pc = "smtpAwait" =>
                    /\ SmtpOnThrow(task[i], o) = SmtpOnThrow(task[i], options)
                    /\ \A value \in BOOLEAN :
                          SmtpOnValue(task[i], value, o)
                              = SmtpOnValue(task[i], value, options)
              /\ task[i].pc = "smtpSleep" =>
                    SmtpLoop(task[i], o) = SmtpLoop(task[i], options)
        /\ (~options.validateSMTP /\ Probed(i) /\ Returned(i)
                /\ (task[i].mxExists \/ Corporate(i))) =>
              task[i].smtpCalls >= 1
        /\ (~options.enableRetries /\ Probed(i) /\ PastMx(i)
                /\ ~task[i].mxExists) =>
              task[i].mxCalls = maxAttempts
        /\ (~options.enableRetries /\ PastSmtp(i) /\ ~task[i].smtpValid) =>
              task[i].smtpCalls = maxAttempts

\* a run with enableRetries and validateSMTP false, strictMode true and the
\* other timeout has retried its resolver probe and has invoked its
\* transport probe more than once
C23_Witness ==
    /\ ~options.enableRetries
    /\ ~options.validateSMTP
    /\ options.strictMode
    /\ options.retryStrategy.timeout = ALT_TIMEOUT
    /\ \E i \in DOMAIN task :
          /\ Returned(i)
          /\ task[i].mxCalls >= 2
          /\ task[i].smtpCalls >= 2

====
